---- MODULE Spec2Model ----
(***************************************************************************)
(* SnapshotStreamWriter (tensorflow/core/data/service/snapshot/            *)
(* snapshot_stream_writer.cc): one background thread drains a cursor into  *)
(* chunk files and renames each into the committed directory, while other  *)
(* threads call Cancel and Wait.  The background thread advances one       *)
(* lock acquisition or one blocking call per step.                         *)
(***************************************************************************)
EXTENDS Integers, Sequences, FiniteSets, TLC

\* ---- bounds of the model ----
MaxElems == 3          \* longest cursor, in elements
MaxChunkSize == 3      \* largest max_chunk_size_bytes tried
ElemSizes == {1, 2}    \* estimated sizes an element can have
Waiters == {"w1", "w2"}  \* external threads that call Wait
MaxChunks == MaxElems + 1  \* chunk files a run may open (binds only when the cap is 0)

IOResults == {"ok", "error"}

Errors == {"dir_error", "init_error", "read_error", "write_error",
           "close_error", "rename_error"}

Statuses == {"ok", "cancelled"} \cup Errors

VARIABLES
  status_,               \* guarded by mu_
  end_of_sequence_,      \* guarded by mu_
  chunk_index_,          \* guarded by mu_
  chunk_size_bytes_,     \* guarded by mu_
  max_chunk_size_bytes_, \* const member
  elements,              \* the sizes of the elements the cursor holds
  iterator_,             \* number of elements the cursor has produced
  snapshot_thread_,      \* the unique_ptr<Thread>: "thread" or "null"
  thread_object,         \* the Thread it pointed to: "alive" or "deleted"
  mu_,                   \* "free" or "task"
  pc,                    \* position of the background thread
  status,                \* the Status the background thread is returning
  chunk_file_path,       \* WriteChunk's local: index of the chunk it writes
  element,               \* WriteRecord's local: the element pulled, 0 if none
  files,                 \* chunk index -> [dir, records, writer]
  wait_pc,               \* position of each Wait caller
  wait_ret,              \* the Status each Wait call returned, "none" before
  settled,               \* the callers whose Wait returned after the thread
                         \* ended
  disturbed,             \* the callers whose Wait returned before a Cancel
  crashed,               \* the process died of the double delete in Wait
  stopping               \* a loop condition of the background thread has
                         \* read a status_ that is not ok

vars == <<status_, end_of_sequence_, chunk_index_, chunk_size_bytes_,
          max_chunk_size_bytes_, elements, iterator_, snapshot_thread_,
          thread_object, mu_, pc, status, chunk_file_path, element, files,
          wait_pc, wait_ret, settled, disturbed, crashed, stopping>>

shared == <<status_, end_of_sequence_, chunk_index_, chunk_size_bytes_>>
config == <<max_chunk_size_bytes_, elements>>
callers == <<snapshot_thread_, thread_object, wait_pc, wait_ret, settled,
             disturbed, crashed>>

\* ---- pure helpers ----

Cursors == UNION {[1..n -> ElemSizes] : n \in 0..MaxElems}

EstimatedSizeBytes(e) == elements[e]

RECURSIVE SizeOf(_)
SizeOf(records) ==
  IF records = <<>> THEN 0
  ELSE EstimatedSizeBytes(Head(records)) + SizeOf(Tail(records))

Front(s) == SubSeq(s, 1, Len(s) - 1)

Last(s) == s[Len(s)]

Committed == {i \in DOMAIN files : files[i].dir = "committed"}

Uncommitted == {i \in DOMAIN files : files[i].dir = "uncommitted"}

ShouldWriteChunk(eos, st) == ~eos /\ st = "ok"

\* the cap compared with <= : a chunk already at the cap takes one more element
ShouldWriteRecordAtCap(size, max, eos, st) == size <= max /\ ~eos /\ st = "ok"

\* the cap left out of the loop condition: a chunk is never rotated
ShouldWriteRecordNoCap(size, max, eos, st) == ~eos /\ st = "ok"

\* the fill loop that does not look at status_
ShouldWriteRecordDeaf(size, max, eos, st) == size < max /\ ~eos

ShouldWriteRecord(size, max, eos, st) == size < max /\ ~eos /\ st = "ok"

\* the increment of chunk_index_ forgotten
NextChunkIndexStuck(i) == i

NextChunkIndex(i) == i + 1

\* the error the thread ends with is not stored at all
StoreStatusDropped(cur, new) == cur

\* the error stored only over an ok status
StoreStatusIfOk(cur, new) == IF cur = "ok" THEN new ELSE cur

StoreStatus(cur, new) == new

\* the cancellation stored only over an ok status
CancelStatusIfOk(cur) == IF cur = "ok" THEN "cancelled" ELSE cur

CancelStatus(cur) == "cancelled"

\* Wait returning std::move(status_), which leaves status_ ok
StatusAfterMove(st) == "ok"

StatusAfterRead(st) == st

\* end-of-sequence reported as a failed read, so that the chunk is abandoned
WriteRecordEndOfSequenceFails(closed) ==
  IF closed = "ok" THEN "read_error" ELSE closed

WriteRecordEndOfSequence(closed) == closed

ThreadJoined(p) == p = "done"

\* a Close that leaves the sink open
CloseWriterSkipped(f, i) == f

CloseWriter(f, i) == [f EXCEPT ![i].writer = "closed"]

RenameFile(f, i) == [f EXCEPT ![i].dir = "committed"]

\* ---- construction ----

Constructed ==
  /\ status_ = "ok"
  /\ end_of_sequence_ = FALSE
  /\ chunk_index_ = 0
  /\ chunk_size_bytes_ = 0
  /\ iterator_ = 0
  /\ snapshot_thread_ = "thread"
  /\ thread_object = "alive"
  /\ mu_ = "free"
  /\ pc = "start"
  /\ status = "ok"
  /\ chunk_file_path = 0
  /\ element = 0
  /\ files = <<>>
  /\ wait_pc = [w \in Waiters |-> "idle"]
  /\ wait_ret = [w \in Waiters |-> "none"]
  /\ settled = {}
  /\ disturbed = {}
  /\ crashed = FALSE
  /\ stopping = FALSE

Init ==
  /\ max_chunk_size_bytes_ \in 0..MaxChunkSize
  /\ elements \in Cursors
  /\ Constructed

\* ---- the background thread ----

Running == ~crashed

Unlocked == ~crashed /\ mu_ = "free"

CreateChunksDirectory(r) ==
  /\ Running /\ pc = "start"
  /\ IF r = "ok"
       THEN pc' = "should_write_chunk" /\ status' = status
       ELSE pc' = "store" /\ status' = "dir_error"
  /\ UNCHANGED <<shared, config, iterator_, mu_, chunk_file_path, element,
                 files, callers, stopping>>

WriteSnapshotFnLoop ==
  /\ Unlocked /\ pc = "should_write_chunk"
  /\ pc' = IF ShouldWriteChunk(end_of_sequence_, status_)
             THEN "get_path" ELSE "return_status"
  /\ stopping' = (stopping \/ status_ # "ok")
  /\ UNCHANGED <<shared, config, iterator_, mu_, status, chunk_file_path,
                 element, files, callers>>

WriteSnapshotFnReturn ==
  /\ Unlocked /\ pc = "return_status"
  /\ status' = status_
  /\ pc' = "store"
  /\ UNCHANGED <<shared, config, iterator_, mu_, chunk_file_path, element,
                 files, callers, stopping>>

GetChunkFilePath ==
  /\ Unlocked /\ pc = "get_path"
  /\ chunk_index_ < MaxChunks
  /\ chunk_file_path' = chunk_index_
  /\ pc' = "initialize"
  /\ UNCHANGED <<shared, config, iterator_, mu_, status, element, files,
                 callers, stopping>>

WriterInitialize(r) ==
  /\ Running /\ pc = "initialize"
  /\ IF r = "ok"
       THEN /\ files' = [i \in DOMAIN files \cup {chunk_file_path} |->
                           IF i = chunk_file_path
                             THEN [dir |-> "uncommitted", records |-> <<>>,
                                   writer |-> "open"]
                             ELSE files[i]]
            /\ pc' = "should_write_record"
            /\ status' = status
       ELSE /\ files' = files
            /\ pc' = "store"
            /\ status' = "init_error"
  /\ UNCHANGED <<shared, config, iterator_, mu_, chunk_file_path, element,
                 callers, stopping>>

WriteChunkLoop ==
  /\ Unlocked /\ pc = "should_write_record"
  /\ pc' = IF ShouldWriteRecord(chunk_size_bytes_, max_chunk_size_bytes_,
                                end_of_sequence_, status_)
             THEN "lock" ELSE "rename"
  /\ stopping' = (stopping \/ status_ # "ok")
  /\ UNCHANGED <<shared, config, iterator_, mu_, status, chunk_file_path,
                 element, files, callers>>

WriteRecordLock ==
  /\ Unlocked /\ pc = "lock"
  /\ mu_' = "task"
  /\ pc' = "get_next"
  /\ UNCHANGED <<shared, config, iterator_, status, chunk_file_path, element,
                 files, callers, stopping>>

WriteRecordGetNext(r) ==
  /\ Running /\ pc = "get_next" /\ mu_ = "task"
  /\ mu_' = "free"
  /\ IF r = "error"
       THEN /\ status' = "read_error"
            /\ pc' = "cleanup"
            /\ UNCHANGED <<end_of_sequence_, iterator_, element>>
       ELSE IF iterator_ = Len(elements)
         THEN /\ end_of_sequence_' = TRUE
              /\ pc' = "close"
              /\ UNCHANGED <<status, iterator_, element>>
         ELSE /\ end_of_sequence_' = FALSE
              /\ iterator_' = iterator_ + 1
              /\ element' = iterator_ + 1
              /\ pc' = "write_tensors"
              /\ status' = status
  /\ UNCHANGED <<status_, chunk_index_, chunk_size_bytes_, config,
                 chunk_file_path, files, callers, stopping>>

WriteRecordClose(r) ==
  /\ Running /\ pc = "close"
  /\ files' = CloseWriter(files, chunk_file_path)
  /\ LET returned == WriteRecordEndOfSequence(
                         IF r = "ok" THEN "ok" ELSE "close_error")
     IN IF returned = "ok"
          THEN pc' = "should_write_record" /\ status' = status
          ELSE pc' = "cleanup" /\ status' = returned
  /\ UNCHANGED <<shared, config, iterator_, mu_, chunk_file_path, element,
                 callers, stopping>>

WriteRecordWriteTensors(r) ==
  /\ Running /\ pc = "write_tensors"
  /\ IF r = "ok"
       THEN /\ files' = [files EXCEPT ![chunk_file_path].records =
                                         Append(@, element)]
            /\ pc' = "add_size"
            /\ status' = status
       ELSE /\ files' = files
            /\ pc' = "cleanup"
            /\ status' = "write_error"
  /\ UNCHANGED <<shared, config, iterator_, mu_, chunk_file_path, element,
                 callers, stopping>>

WriteRecordAddSize ==
  /\ Unlocked /\ pc = "add_size"
  /\ chunk_size_bytes_' = chunk_size_bytes_ + EstimatedSizeBytes(element)
  /\ pc' = "should_write_record"
  /\ UNCHANGED <<status_, end_of_sequence_, chunk_index_, config, iterator_,
                 mu_, status, chunk_file_path, element, files, callers, stopping>>

CommitChunkRename(r) ==
  /\ Running /\ pc = "rename"
  /\ IF r = "ok"
       THEN /\ files' = RenameFile(files, chunk_file_path)
            /\ pc' = "advance"
            /\ status' = status
       ELSE /\ files' = files
            /\ pc' = "cleanup"
            /\ status' = "rename_error"
  /\ UNCHANGED <<shared, config, iterator_, mu_, chunk_file_path, element,
                 callers, stopping>>

CommitChunkAdvance ==
  /\ Unlocked /\ pc = "advance"
  /\ chunk_index_' = NextChunkIndex(chunk_index_)
  /\ chunk_size_bytes_' = 0
  /\ status' = "ok"
  /\ pc' = "cleanup"
  /\ UNCHANGED <<status_, end_of_sequence_, config, iterator_, mu_,
                 chunk_file_path, element, files, callers, stopping>>

WriteChunkCleanup ==
  /\ Running /\ pc = "cleanup"
  /\ files' = CloseWriter(files, chunk_file_path)
  /\ pc' = IF status = "ok" THEN "should_write_chunk" ELSE "store"
  /\ UNCHANGED <<shared, config, iterator_, mu_, status, chunk_file_path,
                 element, callers, stopping>>

SnapshotFnStore ==
  /\ Unlocked /\ pc = "store"
  /\ status_' = IF status # "ok" THEN StoreStatus(status_, status) ELSE status_
  /\ pc' = "done"
  /\ UNCHANGED <<end_of_sequence_, chunk_index_, chunk_size_bytes_, config,
                 iterator_, mu_, status, chunk_file_path, element, files,
                 callers, stopping>>

\* ---- the external callers ----

Cancel ==
  /\ Unlocked
  /\ status_' = CancelStatus(status_)
  /\ disturbed' = {w \in Waiters : wait_ret[w] # "none"}
  /\ UNCHANGED <<end_of_sequence_, chunk_index_, chunk_size_bytes_, config,
                 iterator_, mu_, pc, status, chunk_file_path, element, files,
                 snapshot_thread_, thread_object, wait_pc, wait_ret, settled,
                 crashed, stopping>>

task == <<config, iterator_, mu_, pc, status, chunk_file_path, element,
          files, stopping>>

WaitLoad(w) ==
  /\ Running /\ wait_pc[w] = "idle"
  /\ wait_pc' = [wait_pc EXCEPT ![w] =
                   IF snapshot_thread_ = "thread" THEN "store_old" ELSE "store_null"]
  /\ UNCHANGED <<shared, task, snapshot_thread_, thread_object, wait_ret,
                 settled, disturbed, crashed>>

WaitStore(w) ==
  /\ Running /\ wait_pc[w] \in {"store_old", "store_null"}
  /\ snapshot_thread_' = "null"
  /\ wait_pc' = [wait_pc EXCEPT ![w] =
                   IF wait_pc[w] = "store_old" THEN "delete" ELSE "lock"]
  /\ UNCHANGED <<shared, task, thread_object, wait_ret, settled, disturbed,
                 crashed>>

WaitDelete(w, survives) ==
  /\ Running /\ wait_pc[w] = "delete"
  /\ ThreadJoined(pc)
  /\ thread_object' = "deleted"
  /\ IF thread_object = "alive" \/ survives
       THEN wait_pc' = [wait_pc EXCEPT ![w] = "lock"] /\ crashed' = crashed
       ELSE wait_pc' = wait_pc /\ crashed' = TRUE
  /\ UNCHANGED <<shared, task, snapshot_thread_, wait_ret, settled,
                 disturbed>>

WaitReturn(w) ==
  /\ Unlocked /\ wait_pc[w] = "lock"
  /\ wait_pc' = [wait_pc EXCEPT ![w] = "returned"]
  /\ wait_ret' = [wait_ret EXCEPT ![w] = status_]
  /\ status_' = StatusAfterRead(status_)
  /\ settled' = IF pc = "done" THEN settled \cup {w} ELSE settled
  /\ UNCHANGED <<end_of_sequence_, chunk_index_, chunk_size_bytes_, task,
                 snapshot_thread_, thread_object, disturbed, crashed>>

\* ---- specifications ----

Next ==
  \/ \E r \in IOResults : CreateChunksDirectory(r)
  \/ WriteSnapshotFnLoop
  \/ WriteSnapshotFnReturn
  \/ GetChunkFilePath
  \/ \E r \in IOResults : WriterInitialize(r)
  \/ WriteChunkLoop
  \/ WriteRecordLock
  \/ \E r \in IOResults : WriteRecordGetNext(r)
  \/ \E r \in IOResults : WriteRecordClose(r)
  \/ \E r \in IOResults : WriteRecordWriteTensors(r)
  \/ WriteRecordAddSize
  \/ \E r \in IOResults : CommitChunkRename(r)
  \/ CommitChunkAdvance
  \/ WriteChunkCleanup
  \/ SnapshotFnStore
  \/ Cancel
  \/ \E w \in Waiters : WaitLoad(w)
  \/ \E w \in Waiters : WaitStore(w)
  \/ \E w \in Waiters, survives \in BOOLEAN : WaitDelete(w, survives)
  \/ \E w \in Waiters : WaitReturn(w)

Spec == Init /\ [][Next]_vars

\* Scenario A: cap 1000, elements of 400, 400 and 400 bytes, nothing fails
\* and nobody calls Cancel.
InitA ==
  /\ max_chunk_size_bytes_ = 1000
  /\ elements = <<400, 400, 400>>
  /\ Constructed

NextA ==
  \/ CreateChunksDirectory("ok")
  \/ WriteSnapshotFnLoop
  \/ WriteSnapshotFnReturn
  \/ GetChunkFilePath
  \/ WriterInitialize("ok")
  \/ WriteChunkLoop
  \/ WriteRecordLock
  \/ WriteRecordGetNext("ok")
  \/ WriteRecordClose("ok")
  \/ WriteRecordWriteTensors("ok")
  \/ WriteRecordAddSize
  \/ CommitChunkRename("ok")
  \/ CommitChunkAdvance
  \/ WriteChunkCleanup
  \/ SnapshotFnStore
  \/ \E w \in Waiters : WaitLoad(w)
  \/ \E w \in Waiters : WaitStore(w)
  \/ \E w \in Waiters, survives \in BOOLEAN : WaitDelete(w, survives)
  \/ \E w \in Waiters : WaitReturn(w)

SpecA == InitA /\ [][NextA]_vars

\* Scenario B: cap 500, elements of 300, 300 and 300 bytes, nothing fails
\* and nobody calls Cancel.
InitB ==
  /\ max_chunk_size_bytes_ = 500
  /\ elements = <<300, 300, 300>>
  /\ Constructed

SpecB == InitB /\ [][NextA]_vars

\* Any cursor and cap, nothing fails and nobody calls Cancel.
SpecQuiet == Init /\ [][NextA]_vars

\* Any cursor and cap, any call may fail, nobody calls Cancel.
NextC ==
  \/ \E r \in IOResults : CreateChunksDirectory(r)
  \/ WriteSnapshotFnLoop
  \/ WriteSnapshotFnReturn
  \/ GetChunkFilePath
  \/ \E r \in IOResults : WriterInitialize(r)
  \/ WriteChunkLoop
  \/ WriteRecordLock
  \/ \E r \in IOResults : WriteRecordGetNext(r)
  \/ \E r \in IOResults : WriteRecordClose(r)
  \/ \E r \in IOResults : WriteRecordWriteTensors(r)
  \/ WriteRecordAddSize
  \/ \E r \in IOResults : CommitChunkRename(r)
  \/ CommitChunkAdvance
  \/ WriteChunkCleanup
  \/ SnapshotFnStore
  \/ \E w \in Waiters : WaitLoad(w)
  \/ \E w \in Waiters : WaitStore(w)
  \/ \E w \in Waiters, survives \in BOOLEAN : WaitDelete(w, survives)
  \/ \E w \in Waiters : WaitReturn(w)

SpecC == Init /\ [][NextC]_vars

\* The steps of the background thread, which the scheduler runs whenever
\* one of them is possible.
TaskNext ==
  \/ \E r \in IOResults : CreateChunksDirectory(r)
  \/ WriteSnapshotFnLoop
  \/ WriteSnapshotFnReturn
  \/ GetChunkFilePath
  \/ \E r \in IOResults : WriterInitialize(r)
  \/ WriteChunkLoop
  \/ WriteRecordLock
  \/ \E r \in IOResults : WriteRecordGetNext(r)
  \/ \E r \in IOResults : WriteRecordClose(r)
  \/ \E r \in IOResults : WriteRecordWriteTensors(r)
  \/ WriteRecordAddSize
  \/ \E r \in IOResults : CommitChunkRename(r)
  \/ CommitChunkAdvance
  \/ WriteChunkCleanup
  \/ SnapshotFnStore

FairSpec == Spec /\ WF_vars(TaskNext)

\* no Cancel and no failing call, the background thread scheduled fairly
FairQuiet == SpecQuiet /\ WF_vars(TaskNext)

\* ---- the claims ----

\* C1: every file in the committed directory has a closed sink: the sink of
\* a chunk is closed before the chunk is renamed, on rotation, at
\* end-of-sequence and when the fill loop ends because status_ is not ok.
C1_ClosedBeforeCommitted ==
  \A i \in Committed : files[i].writer = "closed"

\* C2 as stated: in every reachable state the committed chunk indices are
\* exactly 0 .. chunk_index_ - 1.
C2_CommittedIsPrefix == Committed = 0..(chunk_index_ - 1)

\* C2 amended: the committed chunk indices are exactly 0 .. chunk_index_ - 1,
\* except between a successful rename and the increment of chunk_index_ that
\* follows it in CommitChunk, where they are 0 .. chunk_index_.
C2_CommittedPrefixOutsideCommit ==
  Committed = IF pc = "advance" THEN 0..chunk_index_
                                ELSE 0..(chunk_index_ - 1)

\* C2 witness: the second chunk has been renamed and chunk_index_ is still 1.
C2_SecondChunkRenamed ==
  pc = "advance" /\ chunk_index_ = 1 /\ Committed = {0, 1}

\* C3 as stated: the error the background thread ends with is stored only
\* when status_ is still ok, and leaves any other status_ as it is.
C3_ErrorStoredOnlyOverOk ==
  [][(pc = "store" /\ pc' = "done")
       => status_' = IF status_ = "ok" THEN status ELSE status_]_vars

\* C3 amended: the non-ok status the background thread ends with is stored
\* into status_ whatever status_ holds, a cancellation included.
C3_ErrorOverwrites ==
  [][(pc = "store" /\ pc' = "done" /\ status # "ok")
       => status_' = status]_vars

\* C3 witness: the thread is about to store an error while status_ holds a
\* cancellation that Cancel set during the failing operation.
C3_ErrorAfterCancel ==
  pc = "store" /\ status \in Errors /\ status_ = "cancelled"

\* C4 as stated: Cancel stores the cancellation only when status_ is ok and
\* leaves any other status_ as it is.
C4_CancelOnlyOverOk ==
  [][Cancel => status_' = IF status_ = "ok" THEN "cancelled" ELSE status_]_vars

\* C4 amended: Cancel stores the cancellation whatever status_ holds, an
\* error stored by the background thread included.
C4_CancelOverwrites == [][Cancel => status_' = "cancelled"]_vars

\* C4 witness: the thread ended with an error and stored it, and status_
\* now holds the cancellation.
C4_CancelAfterError ==
  pc = "done" /\ status \in Errors /\ status_ = "cancelled"

\* C5 as stated, for the Wait calls that return after the background thread
\* has ended: any two of them return the same status, whatever is called
\* between them.
C5_SettledWaitsAgree ==
  \A v, w \in settled : wait_ret[v] = wait_ret[w]

\* C5 amended: two Wait calls that return after the background thread has
\* ended, with no Cancel after the first of them, return the same status.
C5_WaitsAgreeOnceSettled ==
  \A v, w \in settled \ disturbed : wait_ret[v] = wait_ret[w]

\* C5 witness: both callers returned the same error after the thread ended.
C5_BothWaitsReturned ==
  /\ settled = Waiters /\ disturbed = {}
  /\ \A w \in Waiters : wait_ret[w] \in Errors

\* C6: a Wait call returns only after the background thread has ended.
C6_WaitReturnsAfterEnd ==
  \A w \in Waiters : wait_ret[w] # "none" => pc = "done"

\* C7: when Wait returns ok the cursor has reported end-of-sequence and every
\* chunk file opened is in the committed directory; status_ never goes from
\* a non-ok value back to ok.
C7_NoPartialSuccess ==
  [][/\ \A w \in Waiters :
          (wait_ret[w] = "none" /\ wait_ret'[w] = "ok")
            => (end_of_sequence_ /\ Uncommitted = {})
      /\ (status_ # "ok" => status_' # "ok")]_vars

\* C8 as stated: once the thread has ended after the cursor reported
\* end-of-sequence, the chunk that was open then is committed.
C8_TailCommitted ==
  (pc = "done" /\ end_of_sequence_)
    => files[chunk_file_path].dir = "committed"

\* C8 amended: that chunk is committed unless the close of its sink at
\* end-of-sequence or its rename failed.
C8_TailCommittedUnlessCloseOrRenameFails ==
  (pc = "done" /\ end_of_sequence_)
    => \/ files[chunk_file_path].dir = "committed"
       \/ status \in {"close_error", "rename_error"}

\* C8 witness: end-of-sequence came on an empty chunk, which is committed.
C8_EmptyTailCommitted ==
  /\ pc = "done" /\ end_of_sequence_
  /\ files[chunk_file_path].dir = "committed"
  /\ files[chunk_file_path].records = <<>>

\* C9: in every committed chunk the estimated size before the last element
\* was below the cap, so the final size is below the cap plus that element;
\* every element is in one chunk only, once.
C9_SoftCap ==
  /\ pc = "write_tensors" =>
       /\ chunk_size_bytes_ = SizeOf(files[chunk_file_path].records)
       /\ chunk_size_bytes_ < max_chunk_size_bytes_
  /\ \A i \in Committed :
       LET r == files[i].records
       IN r # <<>> =>
            /\ SizeOf(Front(r)) < max_chunk_size_bytes_
            /\ SizeOf(r) < max_chunk_size_bytes_ + EstimatedSizeBytes(Last(r))
  /\ \A i, j \in DOMAIN files :
       \A m \in DOMAIN files[i].records, n \in DOMAIN files[j].records :
         files[i].records[m] = files[j].records[n] => (i = j /\ m = n)

\* C9 witness: a committed chunk whose estimated size exceeds the cap.
C9_ChunkOverCap ==
  \E i \in Committed : SizeOf(files[i].records) > max_chunk_size_bytes_

\* C10 as stated: scenario A ends with chunk_0 alone committed, holding the
\* three elements, and Wait returns ok.
C10_OneChunk ==
  /\ \A w \in Waiters : wait_ret[w] \in {"none", "ok"}
  /\ pc = "done" =>
       /\ Committed = {0} /\ DOMAIN files = {0}
       /\ files[0].records = <<1, 2, 3>>

\* C10 amended: scenario A ends with two committed chunks, chunk_0 holding
\* the three elements and an empty chunk_1, and Wait returns ok.
C10_OneChunkAndEmptyTail ==
  /\ \A w \in Waiters : wait_ret[w] \in {"none", "ok"}
  /\ pc = "done" =>
       /\ Committed = {0, 1} /\ DOMAIN files = {0, 1}
       /\ files[0].records = <<1, 2, 3>>
       /\ files[1].records = <<>>
       /\ status_ = "ok"

\* C10 witness: scenario A has ended and a Wait call has returned ok.
C10_DrainedAndWaited ==
  pc = "done" /\ chunk_index_ = 2 /\ \E w \in Waiters : wait_ret[w] = "ok"

\* C11: scenario B ends with two committed chunks, chunk_0 holding the first
\* two elements and chunk_1 the third, and Wait returns ok.
C11_TwoChunks ==
  /\ \A w \in Waiters : wait_ret[w] \in {"none", "ok"}
  /\ pc = "done" =>
       /\ Committed = {0, 1} /\ DOMAIN files = {0, 1}
       /\ files[0].records = <<1, 2>>
       /\ files[1].records = <<3>>
       /\ status_ = "ok"

\* C11 witness: scenario B has ended, chunk_0 was rotated at 600 bytes, and
\* a Wait call has returned ok.
C11_RotatedAndWaited ==
  /\ pc = "done" /\ chunk_index_ = 2
  /\ SizeOf(files[0].records) = 600
  /\ \E w \in Waiters : wait_ret[w] = "ok"

\* The thread has ended on a failure of the second pull of the cursor: the
\* first pull produced element 1 and the next one failed.
SecondPullFailed == pc = "done" /\ status = "read_error" /\ iterator_ = 1

\* C12 as stated, for the Wait calls that return after the thread has ended:
\* when the second pull fails, Wait returns the read error, no chunk is
\* committed and chunk_0 is left in the uncommitted directory.
C12_NothingCommitted ==
  SecondPullFailed =>
    /\ \A w \in settled : wait_ret[w] = "read_error"
    /\ Committed = {}
    /\ Uncommitted = {0}

\* C12 amended: when the second pull fails, Wait calls that return after the
\* thread has ended return the read error; if the first element is smaller
\* than the cap nothing is committed and chunk_0 is left uncommitted,
\* otherwise chunk_0 was rotated and committed with the first element before
\* the second pull, and it is the empty chunk_1 that is left uncommitted.
C12_CommittedOnlyIfRotated ==
  SecondPullFailed =>
    /\ status_ = "read_error"
    /\ \A w \in settled : wait_ret[w] = "read_error"
    /\ IF EstimatedSizeBytes(1) < max_chunk_size_bytes_
         THEN /\ Committed = {} /\ Uncommitted = {0}
              /\ files[0].records = <<1>>
         ELSE /\ Committed = {0} /\ Uncommitted = {1}
              /\ files[0].records = <<1>>
              /\ files[1].records = <<>>

\* C12 witness: the second pull failed with chunk_0 still being filled, and
\* a Wait call returned the read error.
C12_FailedInFirstChunk ==
  /\ SecondPullFailed /\ Committed = {} /\ Uncommitted = {0}
  /\ \E w \in settled : wait_ret[w] = "read_error"

\* A step in which the background thread takes the lock to pull the cursor,
\* appends an element to a chunk, or renames a chunk into the committed
\* directory.
PullsCursor == pc = "lock" /\ pc' = "get_next"

AppendsRecord ==
  \E i \in DOMAIN files :
    i \in DOMAIN files' /\ Len(files'[i].records) > Len(files[i].records)

RenamesChunk == Committed' # Committed

OpensChunk == DOMAIN files' # DOMAIN files \/ (pc = "initialize" /\ pc' # pc)

\* C13 as stated: after the first check that reads a status_ that is not ok,
\* the background thread pulls no element, appends none and renames no chunk.
C13_StopsAtNextCheck ==
  [][stopping => ~PullsCursor /\ ~AppendsRecord /\ ~RenamesChunk]_vars

\* C13 amended: after the first check that reads a status_ that is not ok,
\* the background thread pulls no element, appends none and opens no chunk;
\* the only chunk it can still rename is the one that was open at that
\* check, which it commits as it is.
C13_StopsAfterCommit ==
  [][stopping =>
       /\ ~PullsCursor /\ ~AppendsRecord /\ ~OpensChunk
       /\ Committed' \subseteq Committed \cup {chunk_file_path}
       /\ (RenamesChunk => pc = "rename")]_vars

\* C13 witness: a check of the fill loop read the cancellation with one
\* element in the open chunk and nothing else wrong, and that chunk has been
\* committed afterwards.
C13_CommittedAfterCancel ==
  /\ stopping /\ pc = "done" /\ status = "cancelled" /\ ~end_of_sequence_
  /\ Committed = {0} /\ files[0].records = <<1>>
  /\ SizeOf(files[0].records) < max_chunk_size_bytes_

\* ---- C14 ----
\* the steps of the background task that are a blocking call: directory
\* creation, sink initialize, cursor pull, sink close, append, rename and the
\* close of the cleanup
BlockingCalls == {"start", "initialize", "get_next", "close", "write_tensors",
                  "rename", "cleanup"}

\* C14: the background task never holds mu_ while it performs a blocking
\* call, so Cancel (enabled when mu_ is free) never waits for such a call
C14_LockFreeAcrossBlockingCalls == pc \in BlockingCalls => mu_ # "task"

\* ---- C15 ----
\* C15: when Cancel races with the background thread storing a fatal
\* error, the thread ends, status_ then holds the cancellation or that
\* error and never ok, and mu_ is always released again, so that neither
\* the thread nor Cancel, Wait or status waits for it for ever.
C15_RaceEndsCancelledOrError ==
  /\ [](pc = "done" /\ status \in Errors => status_ \in {"cancelled", status})
  /\ (status \in Errors) ~> (pc = "done")
  /\ (mu_ # "free") ~> (mu_ = "free")

\* C15 witness: Cancel was seen by the fill loop, the rename that followed
\* failed, and the error was stored last, over the cancellation.
C15_ErrorLandedAfterCancel ==
  pc = "done" /\ stopping /\ status \in Errors /\ status_ = status

\* ---- C16 ----
\* the background thread ended with the error of a failed rename
RenameFailed == pc = "done" /\ status = "rename_error"

\* C16: a failed rename is fatal: the chunk file stays in the uncommitted
\* directory, chunk_index_ and chunk_size_bytes_ are as they were before the
\* rename, no further chunk is opened and, when Cancel is never called,
\* every Wait returns the rename error.
C16_RenameFailureFatal ==
  RenameFailed =>
    /\ files[chunk_file_path].dir = "uncommitted"
    /\ Committed = 0..(chunk_file_path - 1)
    /\ chunk_index_ = chunk_file_path
    /\ chunk_size_bytes_ = SizeOf(files[chunk_file_path].records)
    /\ DOMAIN files = 0..chunk_file_path
    /\ \A w \in Waiters : wait_ret[w] \in {"none", "rename_error"}

\* ---- C17 ----
\* C17: a chunk in the committed directory stays there, with the records it
\* holds unchanged, through every later step: Cancel and the error paths
\* roll back, delete or overwrite no committed chunk.
C17_CommittedStaysCommitted ==
  [][\A i \in Committed :
       i \in Committed' /\ files'[i].records = files[i].records]_vars

\* C17 witness: the thread ended with an error, Cancel was called as well,
\* and chunk_0 committed before is still there with its element.
C17_CommittedSurvivesErrorAndCancel ==
  /\ pc = "done" /\ status \in Errors /\ status_ = "cancelled"
  /\ 0 \in Committed /\ files[0].records = <<1>>

\* ---- C18 ----
\* the positions of the background thread inside WriteChunk, after the sink
\* was initialized and before the cleanup has run
InWriteChunk == {"should_write_record", "lock", "get_next", "close",
                 "write_tensors", "add_size", "rename", "advance", "cleanup"}

\* C18: a sink is open only while the thread is inside the WriteChunk call
\* that initialized it: it is closed when WriteChunk returns, on every exit
\* path, and no sink is open once the thread has ended.
C18_SinkClosedOnReturn ==
  \A i \in DOMAIN files :
    files[i].writer = "open" => i = chunk_file_path /\ pc \in InWriteChunk

\* C18 witness: the thread ended because an append failed, after it had
\* initialized the sink of chunk_0 and written one element; no sink is open.
C18_ClosedAfterAppendFailure ==
  /\ pc = "done" /\ status = "write_error"
  /\ DOMAIN files = {0} /\ files[0].records = <<1>>
  /\ files[0].writer = "closed"

\* ---- C19 ----
\* the records of the committed chunks with an index below n, in increasing
\* chunk index order
RECURSIVE ConcatChunks(_)
ConcatChunks(n) ==
  IF n = 0 THEN <<>>
  ELSE ConcatChunks(n - 1) \o
         (IF (n - 1) \in Committed THEN files[n - 1].records ELSE <<>>)

CommittedElements == ConcatChunks(MaxChunks)

\* the elements the cursor produces before end-of-sequence, in pull order
Pulled == [k \in 1..Len(elements) |-> k]

\* C19: whenever a Wait has returned ok, the committed chunks taken in
\* increasing index order hold exactly the elements of the cursor, in pull
\* order, none lost, duplicated or reordered.
C19_OkMeansEveryElementCommitted ==
  \A w \in Waiters : wait_ret[w] = "ok" => CommittedElements = Pulled

\* ---- C20 ----
\* the pulls the cursor has answered: one per element produced, and the one
\* that reported end-of-sequence
AnsweredPulls == iterator_ + (IF end_of_sequence_ THEN 1 ELSE 0)

\* C20: with no Cancel and no failing call, a fairly scheduled thread ends
\* after finitely many chunks, for every cursor and every
\* max_chunk_size_bytes_: it commits a chunk only after a pull of its own,
\* so it never has more committed chunks than answered pulls, which a
\* finite cursor bounds, and it eventually reaches its end.
C20_TerminatesAfterFinitelyManyChunks ==
  /\ [](Cardinality(Committed) <= AnsweredPulls)
  /\ <>(pc = "done")

====
